---- MODULE Spec2Model ----
(***************************************************************************)
(* Model of src/src/visual.ts: the Visual class of the dumbbell chart.     *)
(*                                                                         *)
(* State: the children of the <svg> element the constructor creates       *)
(* (svg), the options of the last update call (options), whether that call *)
(* threw (threw) and whether it found a non-empty surface (replaced).  The *)
(* private method wrap is also modelled on its own (SpecWrap), with the    *)
(* text, the width and the resulting <tspan> list as state.                *)
(*                                                                         *)
(* Numbers are exact rationals <<numerator, denominator>> in lowest terms  *)
(* (the code computes in IEEE doubles; rounding is not modelled).          *)
(* Strings that the code takes apart (category names) are sequences of     *)
(* one-character strings; strings it only passes on are TLA+ strings.      *)
(* A JavaScript value that may be undefined is a sequence of length 0      *)
(* (undefined) or 1 (the value).                                           *)
(***************************************************************************)
EXTENDS Integers, Sequences, FiniteSets, TLC

VARIABLES svg, options, threw, replaced, wText, wWidth, wTspans, wPc

vars == <<svg, options, threw, replaced, wText, wWidth, wTspans, wPc>>

updateVars == <<svg, options, threw, replaced>>

wrapVars == <<wText, wWidth, wTspans, wPc>>

-----------------------------------------------------------------------------
(* Exact rational arithmetic *)

Abs(n) == IF n < 0 THEN -n ELSE n

RECURSIVE Gcd(_, _)
Gcd(a, b) == IF b = 0 THEN a ELSE Gcd(b, a % b)

\* n/d in lowest terms with a positive denominator; d # 0.
Rat(n, d) ==
    LET g == Gcd(Abs(n), Abs(d))
        s == IF d < 0 THEN -1 ELSE 1
    IN  <<(s * n) \div g, (s * d) \div g>>

RatOf(n) == <<n, 1>>

RatAdd(p, q) == Rat(p[1] * q[2] + q[1] * p[2], p[2] * q[2])

RatSub(p, q) == Rat(p[1] * q[2] - q[1] * p[2], p[2] * q[2])

RatMul(p, q) == Rat(p[1] * q[1], p[2] * q[2])

\* q # 0
RatDiv(p, q) == Rat(p[1] * q[2], p[2] * q[1])

RatLt(p, q) == p[1] * q[2] < q[1] * p[2]

RatLe(p, q) == p[1] * q[2] <= q[1] * p[2]

-----------------------------------------------------------------------------
(* Constants of the Visual class *)

MarginLeft == 100

MarginRight == 30

MarginTop == 60

MarginBottom == 30

CircleRadius == 14

\* strokeWidth = 2.5
StrokeWidth == Rat(5, 2)

colourPalette ==
    <<"#0079EB", "#375071", "#A83DA4", "#4289B3",
      "#9B7003", "#293241", "#006560", "#4B195D">>

\* .call(this.wrap, 100)
WrapWidth == 100

\* const lineHeight = 1.2; `${lineHeight}em`
LineHeightEm == "1.2em"

-----------------------------------------------------------------------------
(* Text: String.prototype.split(/\s+/), Array.prototype.join(" ") and the  *)
(* text measurement of the rendering surface.                              *)

IsSpace(ch) == ch = " "

\* First index >= i of text that holds no whitespace (Len(text)+1 if none).
RECURSIVE SkipSpaces(_, _)
SkipSpaces(text, i) ==
    IF i <= Len(text) /\ IsSpace(text[i]) THEN SkipSpaces(text, i + 1) ELSE i

\* text.split(/\s+/): the pieces between maximal runs of whitespace.  A
\* leading (trailing) run leaves an empty first (last) piece; "" gives [""].
RECURSIVE SplitFrom(_, _, _, _)
SplitFrom(text, i, cur, out) ==
    IF i > Len(text) THEN Append(out, cur)
    ELSE IF IsSpace(text[i])
         THEN SplitFrom(text, SkipSpaces(text, i), <<>>, Append(out, cur))
         ELSE SplitFrom(text, i + 1, Append(cur, text[i]), out)

Split(text) == SplitFrom(text, 1, <<>>, <<>>)

\* line.join(" ")
RECURSIVE Join(_)
Join(line) ==
    IF Len(line) = 0 THEN <<>>
    ELSE IF Len(line) = 1 THEN line[1]
    ELSE line[1] \o <<" ">> \o Join(Tail(line))

\* Width of one character under the fixed-metrics measurement of the
\* rendering surface (pixels).
CharWidth == 10

\* tspan.node().getComputedTextLength() for a tspan holding str.
Measure(str) == Len(str) * CharWidth

-----------------------------------------------------------------------------
(* Visual.wrap: the <tspan> children it leaves in one <text> element.      *)

Tspan(dy, str) == [x |-> 0, dy |-> dy, text |-> str]

\* tspan.text(str) on the tspan appended last
SetLastText(tspans, str) ==
    [tspans EXCEPT ![Len(tspans)] = [@ EXCEPT !.text = str]]

\* The loop condition: words.pop() yields a truthy word.  words is held in
\* reading order, so pop() of the reversed array takes its head; an
\* exhausted array gives undefined and an empty string is falsy too.
HasWord(words) == Len(words) > 0 /\ Len(Head(words)) > 0

\* while ((word = words.pop())) { ... }
RECURSIVE WrapLoop(_, _, _, _)
WrapLoop(words, line, tspans, width) ==
    IF ~HasWord(words) THEN tspans
    ELSE LET word == Head(words)
             pushed == Append(line, word)
             shown == SetLastText(tspans, Join(pushed))
         IN  IF Measure(Join(pushed)) > width
             THEN WrapLoop(Tail(words), <<word>>,
                           Append(SetLastText(shown, Join(line)),
                                  Tspan(LineHeightEm, word)),
                           width)
             ELSE WrapLoop(Tail(words), pushed, shown, width)

\* The body of textSelection.each for an element whose text content is
\* text: the content is cleared, one tspan is appended, then the loop runs.
wrap(text, width) == WrapLoop(Split(text), <<>>, <<Tspan("0em", <<>>)>>, width)

-----------------------------------------------------------------------------
(* Scales (d3.scaleLinear, d3.scalePoint, d3.scaleOrdinal as update        *)
(* configures them)                                                        *)

Max2(a, b) == IF a >= b THEN a ELSE b

Min2(a, b) == IF a <= b THEN a ELSE b

\* d3.max(data, d => Math.max(d.Value1, d.Value2)), data not empty
MaxValue(data) ==
    LET m(i) == Max2(data[i].Value1, data[i].Value2)
    IN  CHOOSE v \in {m(i) : i \in 1..Len(data)} :
            \A i \in 1..Len(data) : m(i) <= v

\* d3.scaleLinear().domain([0, d3.max(...)]).range([left, width - right]);
\* d3.max of an empty array is undefined.
LinearScale(data, width) ==
    [domainMax |-> IF Len(data) = 0 THEN <<>> ELSE <<MaxValue(data)>>,
     r0 |-> MarginLeft,
     r1 |-> width - MarginRight]

\* A linear scale that sends every value of a zero-extent domain to the
\* start of the range.
xScaleZeroAtLeft(scale, v) ==
    LET hi == scale.domainMax[1]
        t  == IF hi = 0 THEN RatOf(0) ELSE Rat(v, hi)
    IN  RatAdd(RatOf(scale.r0), RatMul(t, RatOf(scale.r1 - scale.r0)))

\* The linear scale at v.  A domain of zero extent normalises every value
\* to 0.5 (d3-scale, continuous.js normalize), which the range
\* interpolator maps to the middle of the range; the scale does not clamp.
xScale(scale, v) ==
    LET hi == scale.domainMax[1]
        t  == IF hi = 0 THEN Rat(1, 2) ELSE Rat(v, hi)
    IN  RatAdd(RatOf(scale.r0), RatMul(t, RatOf(scale.r1 - scale.r0)))

\* The values of seq in order of first occurrence (the domain of an
\* ordinal scale keeps one entry per distinct value).
RECURSIVE Distinct(_)
Distinct(seq) ==
    IF Len(seq) = 0 THEN <<>>
    ELSE LET front == Distinct(SubSeq(seq, 1, Len(seq) - 1))
             last == seq[Len(seq)]
         IN  IF \E i \in 1..Len(front) : front[i] = last
             THEN front ELSE Append(front, last)

\* data.map(d => d.Categories)
CategoriesOf(data) == [i \in 1..Len(data) |-> data[i].Categories]

\* 0-based position of c in the domain
DomainIndex(domain, c) == (CHOOSE i \in 1..Len(domain) : domain[i] = c) - 1

\* The band starts of a band scale without padding (scaleBand in place of
\* scalePoint): n steps of (r1 - r0) / n from r0.
PointPositionsBand(n, r0, r1) ==
    [i \in 1..n |-> RatAdd(RatOf(r0), RatMul(Rat(r1 - r0, n), RatOf(i - 1)))]

\* The positions a point scale gives its n domain entries over [r0, r1]
\* (d3-scale band.js rescale with paddingInner 1, paddingOuter 0,
\* align 0.5, no rounding; a descending range reverses the positions).
PointPositions(n, r0, r1) ==
    LET reverse == r1 < r0
        start == IF reverse THEN r1 ELSE r0
        stop == IF reverse THEN r0 ELSE r1
        step == Rat(stop - start, Max2(1, n - 1))
        first == RatAdd(RatOf(start),
                        RatMul(RatSub(RatOf(stop - start),
                                      RatMul(step, RatOf(n - 1))),
                               Rat(1, 2)))
        values == [i \in 1..n |-> RatAdd(first, RatMul(step, RatOf(i - 1)))]
    IN  IF reverse THEN [i \in 1..n |-> values[n + 1 - i]] ELSE values

\* d3.scalePoint().domain(categories).range([top, height - bottom])
PointScale(data, height) ==
    LET domain == Distinct(CategoriesOf(data))
    IN  [domain |-> domain,
         range |-> PointPositions(Len(domain), MarginTop,
                                  height - MarginBottom)]

\* The point scale at c, a category of its domain
yScale(scale, c) == scale.range[DomainIndex(scale.domain, c) + 1]

\* d3.scaleOrdinal().domain(categories).range(this.colourPalette)
OrdinalScale(data) ==
    [domain |-> Distinct(CategoriesOf(data)), range |-> colourPalette]

\* An ordinal scale that stays on the last range entry instead of cycling.
colourScaleNoCycle(scale, c) ==
    scale.range[Min2(DomainIndex(scale.domain, c), Len(scale.range) - 1) + 1]

\* The ordinal scale at c, a category of its domain: the range cycles.
colourScale(scale, c) ==
    scale.range[(DomainIndex(scale.domain, c) % Len(scale.range)) + 1]

-----------------------------------------------------------------------------
(* The elements update appends.  index is the position in data of the      *)
(* datum d3 binds to the element; the text of a value label is the number  *)
(* itself (its decimal string is not spelled out).                         *)

Gridline(sc, data, i) ==
    LET d == data[i]
    IN  [tag |-> "line", class |-> "horizontalGridlines", index |-> i,
         x1 |-> RatOf(MarginLeft),
         x2 |-> RatSub(xScale(sc.x, d.Value1), RatOf(CircleRadius)),
         y1 |-> yScale(sc.y, d.Categories),
         y2 |-> yScale(sc.y, d.Categories),
         opacity |-> Rat(9, 10), strokeWidth |-> RatOf(1),
         strokeDasharray |-> "3 3", stroke |-> "#CACACA"]

Connector(sc, data, i) ==
    LET d == data[i]
    IN  [tag |-> "line", class |-> "linesV1V2", index |-> i,
         x1 |-> RatAdd(xScale(sc.x, d.Value1), RatOf(CircleRadius)),
         x2 |-> RatSub(xScale(sc.x, d.Value2), RatOf(CircleRadius)),
         y1 |-> yScale(sc.y, d.Categories),
         y2 |-> yScale(sc.y, d.Categories),
         strokeWidth |-> StrokeWidth,
         stroke |-> colourScale(sc.colour, d.Categories)]

Circle1(sc, data, i) ==
    LET d == data[i]
    IN  [tag |-> "circle", class |-> "circles1", index |-> i,
         cx |-> xScale(sc.x, d.Value1),
         cy |-> yScale(sc.y, d.Categories),
         r |-> CircleRadius, fill |-> "white",
         strokeWidth |-> StrokeWidth,
         stroke |-> colourScale(sc.colour, d.Categories)]

Circle2(sc, data, i) ==
    LET d == data[i]
    IN  [tag |-> "circle", class |-> "circles2", index |-> i,
         cx |-> xScale(sc.x, d.Value2),
         cy |-> yScale(sc.y, d.Categories),
         r |-> CircleRadius, fill |-> colourScale(sc.colour, d.Categories),
         strokeWidth |-> StrokeWidth,
         stroke |-> colourScale(sc.colour, d.Categories)]

Value1Label(sc, data, i) ==
    LET d == data[i]
    IN  [tag |-> "text", class |-> "value1Labels", index |-> i,
         x |-> xScale(sc.x, d.Value1),
         y |-> yScale(sc.y, d.Categories),
         textAnchor |-> "middle", alignmentBaseline |-> "middle",
         fill |-> colourScale(sc.colour, d.Categories),
         fontSizePx |-> CircleRadius - 2, fontWeight |-> "bold",
         text |-> d.Value1]

Value2Label(sc, data, i) ==
    LET d == data[i]
    IN  [tag |-> "text", class |-> "value2Labels", index |-> i,
         x |-> xScale(sc.x, d.Value2),
         y |-> yScale(sc.y, d.Categories),
         textAnchor |-> "middle", alignmentBaseline |-> "middle",
         fill |-> "white",
         fontSizePx |-> CircleRadius - 2, fontWeight |-> "bold",
         text |-> d.Value2]

\* .text(d => d.Categories).call(this.wrap, 100): wrap replaces the text
\* content by its tspans.
CategoryLabel(sc, data, i) ==
    LET d == data[i]
    IN  [tag |-> "text", class |-> "categoryLabels", index |-> i,
         x |-> RatOf(MarginLeft - 10),
         y |-> yScale(sc.y, d.Categories),
         textAnchor |-> "end", alignmentBaseline |-> "middle",
         tspans |-> wrap(d.Categories, WrapWidth)]

-----------------------------------------------------------------------------
(* The d3 data join on the children of the <svg> element                   *)

\* this.svg.selectAll(".cls"): how many elements it selects
CountClass(surface, cls) ==
    Cardinality({i \in 1..Len(surface) : surface[i].class = cls})

\* An enter selection that leaves out its first datum.
EnterFromSkipsOne(surface, cls) == CountClass(surface, cls) + 2

\* First index of data in the enter selection of
\* selectAll(".cls").data(data): the join is by index, so the first
\* CountClass data are bound to the elements already there.
EnterFrom(surface, cls) == CountClass(surface, cls) + 1

\* selectAll(".cls").data(data).enter().append(...): one new last child per
\* entering datum, in data order.  made[i] is the element the attribute
\* callbacks give datum i.
AppendEntered(surface, cls, made) ==
    surface \o SubSeq(made, EnterFrom(surface, cls), Len(made))

\* An update that does not remove the previous children.
ClearKeeps(surface) == surface

\* .selectAll("*").remove()
Clear(surface) == <<>>

\* Lines 49-60 of update: the three scales, built once per call
Scales(data, width, height) ==
    [x |-> LinearScale(data, width),
     y |-> PointScale(data, height),
     colour |-> OrdinalScale(data)]

\* Lines 62-157 of update: the seven joins in source order.
Render(surface, data, width, height) ==
    LET sc == Scales(data, width, height)
        n == Len(data)
        s1 == AppendEntered(surface, "horizontalGridlines",
                  [i \in 1..n |-> Gridline(sc, data, i)])
        s2 == AppendEntered(s1, "linesV1V2",
                  [i \in 1..n |-> Connector(sc, data, i)])
        s3 == AppendEntered(s2, "circles1",
                  [i \in 1..n |-> Circle1(sc, data, i)])
        s4 == AppendEntered(s3, "circles2",
                  [i \in 1..n |-> Circle2(sc, data, i)])
        s5 == AppendEntered(s4, "value1Labels",
                  [i \in 1..n |-> Value1Label(sc, data, i)])
        s6 == AppendEntered(s5, "value2Labels",
                  [i \in 1..n |-> Value2Label(sc, data, i)])
    IN  AppendEntered(s6, "categoryLabels",
                  [i \in 1..n |-> CategoryLabel(sc, data, i)])

-----------------------------------------------------------------------------
(* Visual.update                                                           *)

Undefined == <<>>

Defined(x) == <<x>>

IsUndefined(opt) == Len(opt) = 0

\* options.dataViews[0]
FirstDataView(opts) ==
    IF Len(opts.dataViews) = 0 THEN Undefined
    ELSE Defined(opts.dataViews[1])

\* The guard of line 34: some required field is missing (undefined) or
\* fewer than two measure columns are present.  An empty array of category
\* columns is an object, hence truthy, and passes.
GuardReturns(opts) ==
    LET dv == FirstDataView(opts)
    IN  \/ IsUndefined(dv)
        \/ IsUndefined(dv[1].categorical)
        \/ IsUndefined(dv[1].categorical[1].categories)
        \/ IsUndefined(dv[1].categorical[1].values)
        \/ Len(dv[1].categorical[1].values[1]) < 2

\* Line 39 reads categories[0].values: a TypeError when categories is [].
Line39Throws(opts) ==
    /\ ~GuardReturns(opts)
    /\ Len(opts.dataViews[1].categorical[1].categories[1]) = 0

\* String(c) and Number(v) of a host value: the host values of the model
\* are strings and numbers, which both conversions return unchanged.
StringOf(c) == c

NumberOf(v) == v

\* Lines 39-47; the measure columns are index-aligned with the categories.
DataOf(opts) ==
    LET cat == opts.dataViews[1].categorical[1]
        categories == cat.categories[1][1].values
        value1 == cat.values[1][1].values
        value2 == cat.values[1][2].values
    IN  [i \in 1..Len(categories) |->
            [Categories |-> StringOf(categories[i]),
             Value1 |-> NumberOf(value1[i]),
             Value2 |-> NumberOf(value2[i])]]

\* update(options) on a surface: the children of <svg> it leaves and
\* whether an exception escaped.
update(surface, opts) ==
    LET cleared == Clear(surface)
    IN  IF GuardReturns(opts) THEN [svg |-> cleared, threw |-> FALSE]
        ELSE IF Line39Throws(opts) THEN [svg |-> cleared, threw |-> TRUE]
        ELSE [svg |-> Render(cleared, DataOf(opts),
                             opts.viewport.width, opts.viewport.height),
              threw |-> FALSE]

-----------------------------------------------------------------------------
(* The host: the inputs it hands to update                                 *)

\* Most rows of a dataset
MaxRows == 2

\* Most rows of a dataset in SpecColour
MaxColourRows == 9

\* Longest text handed to wrap in SpecWrap
MaxTextLen == 5

Word(ch, n) == [i \in 1..n |-> ch]

\* Category names: a short one, one that wraps into two lines, one word
\* wider than WrapWidth, then more short ones.
CatPool ==
    << <<"a">>,
       Word("a", 6) \o <<" ">> \o Word("b", 6),
       Word("c", 11),
       <<"d">>, <<"e">>, <<"f">>, <<"g">>, <<"h">>, <<"i">>,
       <<"j">>, <<"k">>, <<"l">> >>

Cats == {CatPool[1], CatPool[2], CatPool[3]}

ValuePairs == {<<0, 0>>, <<1, 2>>, <<-2, -1>>}

Viewports == {<<230, 150>>, <<130, 90>>, <<100, 80>>, <<0, 0>>}

Column(values) == [values |-> values]

\* dataViews holding one data view with the given category columns and
\* measure columns (each Undefined or Defined(array of columns))
DataViews(categories, values) ==
    << [categorical |->
           Defined([categories |-> categories, values |-> values])] >>

\* The categorical data view of a dataset: one category column and two
\* measure columns, index-aligned.
FullDataViews(rows) ==
    DataViews(
        Defined(<<Column([i \in 1..Len(rows) |-> rows[i].Categories])>>),
        Defined(<<Column([i \in 1..Len(rows) |-> rows[i].Value1]),
                  Column([i \in 1..Len(rows) |-> rows[i].Value2])>>))

\* Data views with a field missing, with too few or too many measures
SampleDataViews ==
    LET cs == <<Column(<<CatPool[1]>>)>>
        m1 == Column(<<1>>)
        m2 == Column(<<2>>)
        m3 == Column(<<5>>)
    IN  { <<>>,
          << [categorical |-> Undefined] >>,
          DataViews(Undefined, Defined(<<m1, m2>>)),
          DataViews(Defined(<<>>), Defined(<<m1, m2>>)),
          DataViews(Defined(<<>>), Defined(<<m1>>)),
          DataViews(Defined(cs), Undefined),
          DataViews(Defined(cs), Defined(<<>>)),
          DataViews(Defined(cs), Defined(<<m1>>)),
          DataViews(Defined(cs), Defined(<<m1, m2, m3>>)) }

\* The dataset update draws from opts (none when it draws nothing)
Rows(opts) ==
    IF GuardReturns(opts) \/ Line39Throws(opts) THEN <<>> ELSE DataOf(opts)

Deliver(opts) ==
    LET r == update(svg, opts)
    IN  /\ options' = opts
        /\ svg' = r.svg
        /\ threw' = r.threw
        /\ replaced' = (Len(svg) > 0)
        /\ UNCHANGED wrapVars

\* The viewport changes: update runs with the new viewport.
Resize(vp) ==
    Deliver([options EXCEPT !.viewport = [width |-> vp[1], height |-> vp[2]]])

\* The data view changes to one of SampleDataViews.
SetDataView(dvs) ==
    Deliver([options EXCEPT !.dataViews = dvs])

\* The dataset gains a row.
AddRow(c, v1, v2) ==
    Deliver([options EXCEPT !.dataViews =
        FullDataViews(Append(Rows(options),
            [Categories |-> c, Value1 |-> v1, Value2 |-> v2]))])

\* The dataset loses its last row.
DropRow ==
    /\ Len(Rows(options)) > 0
    /\ Deliver([options EXCEPT !.dataViews =
           FullDataViews(SubSeq(Rows(options), 1, Len(Rows(options)) - 1))])

\* After the constructor: an empty <svg>, no update yet; the host shows an
\* empty report page.
InitUpdate ==
    /\ svg = <<>>
    /\ options = [viewport |-> [width |-> 230, height |-> 150],
                  dataViews |-> <<>>]
    /\ threw = FALSE
    /\ replaced = FALSE

Init ==
    /\ InitUpdate
    /\ wText = <<>>
    /\ wWidth = WrapWidth
    /\ wTspans = <<>>
    /\ wPc = "idle"

Next ==
    \/ \E vp \in Viewports : Resize(vp)
    \/ \E dvs \in SampleDataViews : SetDataView(dvs)
    \/ \E c \in Cats, vp \in ValuePairs :
          Len(Rows(options)) < MaxRows /\ AddRow(c, vp[1], vp[2])
    \/ DropRow

Spec == Init /\ [][Next]_vars

-----------------------------------------------------------------------------
(* Datasets of many categories (the palette has 8 colours)                 *)

\* The next unused name of CatPool, or, in a dataset of distinct names,
\* the name of the first row again (at most one row repeats a category).
ColourChoices(rows) ==
    LET used == Len(Distinct(CategoriesOf(rows)))
    IN  (IF used < Len(CatPool) THEN {CatPool[used + 1]} ELSE {})
        \cup (IF Len(rows) > 0 /\ used = Len(rows)
              THEN {rows[1].Categories} ELSE {})

NextColour ==
    \/ \E vp \in Viewports : Resize(vp)
    \/ \E c \in ColourChoices(Rows(options)) :
          Len(Rows(options)) < MaxColourRows /\ AddRow(c, 1, 2)
    \/ DropRow

SpecColour == Init /\ [][NextColour]_vars

-----------------------------------------------------------------------------
(* wrap on its own: one call on a <text> element holding wText             *)

Alphabet == {"a", "b", " "}

Texts == UNION {[1..n -> Alphabet] : n \in 0..MaxTextLen}

WrapWidths == {10, 25, 50}

InitWrap ==
    /\ InitUpdate
    /\ wText \in Texts
    /\ wWidth \in WrapWidths
    /\ wTspans = <<>>
    /\ wPc = "call"

WrapCall ==
    /\ wPc = "call"
    /\ wTspans' = wrap(wText, wWidth)
    /\ wPc' = "done"
    /\ UNCHANGED <<wText, wWidth>>
    /\ UNCHANGED updateVars

NextWrap == WrapCall

SpecWrap == InitWrap /\ [][NextWrap]_vars

-----------------------------------------------------------------------------
(* Properties                                                              *)

\* The dataset, viewport and surface positions the properties speak of
Data == Rows(options)

Width == options.viewport.width

Height == options.viewport.height

PositiveViewport == Width > 0 /\ Height > 0

\* Where the element of class cls bound to data point i sits in svg
Positions(cls, i) ==
    {p \in 1..Len(svg) : svg[p].class = cls /\ svg[p].index = i}

Pos(cls, i) == CHOOSE p \in Positions(cls, i) : TRUE

\* gridline, connector, valueA circle, valueB circle, valueA label,
\* valueB label, category label
ClaimedOrder ==
    <<"horizontalGridlines", "linesV1V2", "circles1", "circles2",
      "value1Labels", "value2Labels", "categoryLabels">>

ClaimedTags == <<"line", "line", "circle", "circle", "text", "text", "text">>

(* C1: after any sequence of update calls the surface holds exactly what   *)
(* the most recent update draws (what update leaves on an empty surface    *)
(* for the same options) and nothing older; when the most recent update    *)
(* found data missing, the surface is empty.                               *)
C1_SurfaceHoldsLastRender ==
    /\ svg = update(<<>>, options).svg
    /\ GuardReturns(options) => svg = <<>>

\* An update that found a non-empty surface left one data point's seven
\* elements.
C1_Witness == replaced /\ Len(Data) = 1 /\ Len(svg) = 7

MissingData(opts) ==
    LET dv == FirstDataView(opts)
    IN  \/ IsUndefined(dv)
        \/ IsUndefined(dv[1].categorical)
        \/ IsUndefined(dv[1].categorical[1].categories)
        \/ Len(dv[1].categorical[1].categories[1]) = 0
        \/ IsUndefined(dv[1].categorical[1].values)
        \/ Len(dv[1].categorical[1].values[1]) < 2

(* C3: an update whose input has no data view, no categorical field        *)
(* (absent or an empty list of category columns) or fewer than two measure *)
(* fields leaves the surface empty and returns normally.                   *)
C3_MissingDataIsSilentNoOp ==
    MissingData(options) => (svg = <<>> /\ ~threw)

(* C4: if the dataset is empty, or the viewport width or height is not     *)
(* positive, the surface is left empty.                                    *)
C4_DegenerateInputDrawsNothing ==
    (Len(Data) = 0 \/ Width <= 0 \/ Height <= 0) => svg = <<>>

\* The horizontal scale of the last update, and values to try it on
X(v) == xScale(LinearScale(Data, Width), v)

SampleValues == -2..3

Monotonic == \A v1, v2 \in SampleValues : v1 < v2 => RatLt(X(v1), X(v2))

(* C7 as stated: for a non-empty dataset and a positive viewport the       *)
(* horizontal scale maps 0 to the left margin and the largest value to     *)
(* width - right margin, is strictly increasing, and maps every value to   *)
(* the left margin when the largest value is 0.                            *)
C7_Original ==
    (Len(Data) > 0 /\ PositiveViewport) =>
        /\ X(0) = RatOf(MarginLeft)
        /\ X(MaxValue(Data)) = RatOf(Width - MarginRight)
        /\ Monotonic
        /\ MaxValue(Data) = 0 =>
              \A v \in SampleValues : X(v) = RatOf(MarginLeft)

(* C7 amended: for a non-empty dataset and a positive viewport, when the   *)
(* largest value is not 0 the scale maps 0 to the left margin and the      *)
(* largest value to width - right margin; it is strictly increasing when   *)
(* the largest value is positive and width > left + right margin; when the *)
(* largest value is 0 every value is mapped to the middle of the range,    *)
(* (left margin + width - right margin) / 2.  The circles are drawn where  *)
(* the scale puts their values.                                            *)
C7_ScaleEndsAndOrder ==
    (Len(Data) > 0 /\ PositiveViewport) =>
        /\ MaxValue(Data) # 0 =>
              /\ X(0) = RatOf(MarginLeft)
              /\ X(MaxValue(Data)) = RatOf(Width - MarginRight)
        /\ (MaxValue(Data) > 0 /\ Width > MarginLeft + MarginRight) =>
              Monotonic
        /\ MaxValue(Data) = 0 =>
              \A v \in SampleValues :
                  X(v) = Rat(MarginLeft + Width - MarginRight, 2)
        /\ \A p \in 1..Len(svg) :
              /\ svg[p].class = "circles1" =>
                    svg[p].cx = X(Data[svg[p].index].Value1)
              /\ svg[p].class = "circles2" =>
                    svg[p].cx = X(Data[svg[p].index].Value2)

\* A dataset with a positive largest value in a wide viewport: the circle
\* of the largest value is drawn at width - right margin.
C7_Witness ==
    /\ Len(Data) > 0
    /\ PositiveViewport
    /\ MaxValue(Data) > 0
    /\ Width > MarginLeft + MarginRight
    /\ \E p \in 1..Len(svg) :
          /\ svg[p].class = "circles2"
          /\ Data[svg[p].index].Value2 = MaxValue(Data)
          /\ svg[p].cx = RatOf(Width - MarginRight)

\* The y-coordinate given to data point i (of its valueA circle)
Y(i) == svg[Pos("circles1", i)].cy

StrictlyIncreasingY ==
    \A i, j \in 1..Len(Data) : i < j => RatLt(Y(i), Y(j))

EvenlySpacedY ==
    \A i \in 1..(Len(Data) - 2) :
        RatSub(Y(i + 1), Y(i)) = RatSub(Y(i + 2), Y(i + 1))

DistinctCategories ==
    \A i, j \in 1..Len(Data) :
        i # j => Data[i].Categories # Data[j].Categories

(* C8 as stated: for a non-empty dataset and a positive viewport the       *)
(* y-coordinates of the data points are strictly increasing in input       *)
(* order and evenly spaced, the first at the top margin and the last at    *)
(* height - bottom margin; a single point lies between those two.          *)
C8_Original ==
    (Len(Data) > 0 /\ PositiveViewport) =>
        /\ StrictlyIncreasingY
        /\ EvenlySpacedY
        /\ Len(Data) >= 2 =>
              /\ Y(1) = RatOf(MarginTop)
              /\ Y(Len(Data)) = RatOf(Height - MarginBottom)
        /\ Len(Data) = 1 =>
              /\ RatLe(RatOf(Min2(MarginTop, Height - MarginBottom)), Y(1))
              /\ RatLe(Y(1), RatOf(Max2(MarginTop, Height - MarginBottom)))

(* C8 amended: for a non-empty dataset of pairwise distinct categories and *)
(* a positive viewport of height > top + bottom margin the y-coordinates   *)
(* are strictly increasing in input order and evenly spaced, the first at  *)
(* the top margin and the last at height - bottom margin; a single         *)
(* category is placed at the middle of that range.  In every dataset, data *)
(* points of the same category get the same y-coordinate.                  *)
C8_DistinctCategoriesSpreadEvenly ==
    /\ (/\ Len(Data) > 0
        /\ PositiveViewport
        /\ DistinctCategories
        /\ Height > MarginTop + MarginBottom) =>
            /\ StrictlyIncreasingY
            /\ EvenlySpacedY
            /\ Len(Data) >= 2 =>
                  /\ Y(1) = RatOf(MarginTop)
                  /\ Y(Len(Data)) = RatOf(Height - MarginBottom)
            /\ Len(Data) = 1 =>
                  Y(1) = Rat(MarginTop + Height - MarginBottom, 2)
    /\ \A i, j \in 1..Len(Data) :
          Data[i].Categories = Data[j].Categories => Y(i) = Y(j)

\* Four distinct categories in a 150 pixel high viewport: 60, 80, 100, 120
C8_Witness ==
    /\ Len(Data) = 4
    /\ DistinctCategories
    /\ Height = 150
    /\ Y(1) = RatOf(60) /\ Y(2) = RatOf(80)
    /\ Y(3) = RatOf(100) /\ Y(4) = RatOf(120)

\* 0-based index of data point i's category among the distinct categories
CategoryIndex(i) ==
    DomainIndex(Distinct(CategoriesOf(Data)), Data[i].Categories)

(* C9: the category at index k of the distinct categories (in input        *)
(* order) has the palette colour at index k modulo 8, and the connector    *)
(* stroke, both circle strokes, the valueB circle fill and the valueA      *)
(* label fill of a data point are the colour of its category.              *)
C9_PaletteCyclesByCategoryIndex ==
    \A i \in 1..Len(Data) :
        LET colour == colourPalette[(CategoryIndex(i) % 8) + 1]
        IN  /\ svg[Pos("linesV1V2", i)].stroke = colour
            /\ svg[Pos("circles1", i)].stroke = colour
            /\ svg[Pos("circles2", i)].stroke = colour
            /\ svg[Pos("circles2", i)].fill = colour
            /\ svg[Pos("value1Labels", i)].fill = colour

\* A ninth distinct category, drawn in the first palette colour again
C9_Witness ==
    \E i \in 1..Len(Data) :
        /\ CategoryIndex(i) = 8
        /\ svg[Pos("linesV1V2", i)].stroke = colourPalette[1]
        /\ svg[Pos("circles2", i)].fill = colourPalette[1]

(* C10: every line (tspan) of a wrapped category label is anchored at the  *)
(* x of the label, left margin - 10, right-aligned; the first line is at   *)
(* the label's y (dy 0) and each following line 1.2em below the previous.  *)
C10_WrappedLinesKeepAnchor ==
    \A p \in 1..Len(svg) :
        svg[p].class = "categoryLabels" =>
            /\ svg[p].x = RatOf(MarginLeft - 10)
            /\ svg[p].textAnchor = "end"
            /\ \A k \in 1..Len(svg[p].tspans) :
                  /\ RatOf(svg[p].tspans[k].x) = RatOf(MarginLeft - 10)
                  /\ svg[p].tspans[k].dy = IF k = 1 THEN "0em" ELSE "1.2em"

\* The whitespace-separated words of a text, in order
IsWord(piece) == Len(piece) > 0

WordsOf(text) == SelectSeq(Split(text), IsWord)

\* The words of the lines, read line by line
RECURSIVE LineWords(_)
LineWords(tspans) ==
    IF Len(tspans) = 0 THEN <<>>
    ELSE WordsOf(tspans[1].text) \o LineWords(Tail(tspans))

(* C5: wrap never discards content: the words of the output lines, read    *)
(* line by line, are the whitespace-separated words of the input text in   *)
(* their order, also for leading, trailing or repeated whitespace.         *)
C5_WrapKeepsEveryWord ==
    wPc = "done" => LineWords(wTspans) = WordsOf(wText)

(* C6: every line wrap emits holds at least one word and measures at most  *)
(* maxWidth unless it is a single word wider than maxWidth; a text whose   *)
(* first word is wider than maxWidth gives that word alone on the first    *)
(* line, with no empty line before it.                                     *)
C6_LinesAreNonEmptyAndFit ==
    wPc = "done" =>
        /\ \A k \in 1..Len(wTspans) :
              LET ws == WordsOf(wTspans[k].text)
              IN  /\ Len(ws) >= 1
                  /\ Measure(wTspans[k].text) <= wWidth \/ Len(ws) = 1
        /\ LET ws == WordsOf(wText)
           IN  (Len(ws) > 0 /\ Measure(ws[1]) > wWidth) =>
                   wTspans[1].text = ws[1]

====
